---- MODULE Spec2Model ----
(***************************************************************************)
(* Session-id allocation, payload codec and deferred-write decorators of   *)
(* pyramid_session_redis/util.py and of the older                          *)
(* pyramid_redis_sessions/util.py, over a model of the Redis commands they *)
(* issue (GET, SET, SETEX, EXPIRE, WATCH / MULTI / EXEC).                  *)
(*                                                                         *)
(* Python's None is modelled by the integer None == -1 wherever the value  *)
(* is otherwise a non-negative integer (timeout, timeout_trigger, expires, *)
(* a session id).  Truthy(v) is Python's truth test on such a value.       *)
(* python_expires and set_redis_ttl are booleans (None counts as False).   *)
(***************************************************************************)
EXTENDS Integers, FiniteSets, Sequences, TLC

\* ------------------------------------------------------------------ bounds
\* concurrent callers sharing one Redis
NumProcs == 2
\* the last second the clock reaches
MaxTime == 3
\* store round trips counted per session and unit of work
MaxTrips == 2
\* immediate flushes counted per session and unit of work
MaxSyncs == 1

\* ------------------------------------------------------- program constants
SESSION_API_VERSION == 1

None == -1

Truthy(v) == v # None /\ v # 0

Procs == 1..NumProcs
\* the ids the generator can produce
Ids == {1, 2}

\* the timeouts a caller configures: unset, 0, or a positive number of seconds
Timeout == 2
Timeouts == {None, 0, Timeout}
\* the trigger windows a caller configures
Trigger == 1
Triggers == {None, 0, Trigger}

\* managed dicts: {} and one non-empty dict
EmptyDict == [k \in {} |-> 0]
Dicts == {EmptyDict, [k \in {"a"} |-> 1]}

\* ------------------------------------------------------------------- codec

\* dict.get(key) with the default None
PayloadGet(payload, key) == IF key \in DOMAIN payload THEN payload[key] ELSE None

\* (mutant) the expiry of a new payload leaves the timeout out
empty_session_payload_x_created(timeout, python_expires, time_now) ==
    LET data == [k \in {"m", "c", "v"} |->
                    CASE k = "m" -> [j \in {} |-> 0]
                      [] k = "c" -> time_now
                      [] k = "v" -> SESSION_API_VERSION]
    IN  IF Truthy(timeout)
        THEN IF python_expires
             THEN ("x" :> time_now) @@ ("t" :> timeout) @@ data
             ELSE ("t" :> timeout) @@ data
        ELSE data

\* (mutant) the expiry is written whenever a timeout is set
empty_session_payload_x_untracked(timeout, python_expires, time_now) ==
    LET data == [k \in {"m", "c", "v"} |->
                    CASE k = "m" -> EmptyDict
                      [] k = "c" -> time_now
                      [] k = "v" -> SESSION_API_VERSION]
    IN  IF Truthy(timeout)
        THEN ("x" :> (time_now + timeout)) @@ ("t" :> timeout) @@ data
        ELSE data

\* empty_session_payload(timeout, python_expires) with int_time() = time_now
empty_session_payload(timeout, python_expires, time_now) ==
    LET data == [k \in {"m", "c", "v"} |->
                    CASE k = "m" -> EmptyDict
                      [] k = "c" -> time_now
                      [] k = "v" -> SESSION_API_VERSION]
        withT == IF Truthy(timeout) THEN ("t" :> timeout) @@ data ELSE data
    IN  IF Truthy(timeout) /\ python_expires
        THEN ("x" :> (time_now + timeout)) @@ withT
        ELSE withT

\* (mutant) an unset expires counts as a recompute that is due
encode_raises_lenient(timeout, expires, timeout_trigger, python_expires) == FALSE

\* the comparison `time_now >= (expires - timeout_trigger)` is reached with
\* expires = None: Python raises TypeError
encode_raises(timeout, expires, timeout_trigger, python_expires) ==
    /\ Truthy(timeout)
    /\ python_expires
    /\ Truthy(timeout_trigger)
    /\ expires = None

\* (mutant) the trigger test is strict
encode_recompute_strict(expires, timeout_trigger, time_now) ==
    (~Truthy(timeout_trigger)) \/ (time_now > (expires - timeout_trigger))

\* the test of line 161, evaluated only where encode_raises is false
encode_recompute(expires, timeout_trigger, time_now) ==
    (~Truthy(timeout_trigger)) \/ (time_now >= (expires - timeout_trigger))

\* the three keys every payload has
base_payload(managed_dict, created) ==
    [k \in {"m", "c", "v"} |->
        CASE k = "m" -> managed_dict
          [] k = "c" -> created
          [] k = "v" -> SESSION_API_VERSION]

\* (mutant) 't' is written whatever the timeout
encode_session_payload_always_t(managed_dict, created, timeout, expires, timeout_trigger, python_expires, time_now) ==
    LET data == base_payload(managed_dict, created)
        withX == IF Truthy(expires) /\ python_expires
                 THEN ("x" :> expires) @@ data ELSE data
        withT == ("t" :> timeout) @@ withX
    IN  IF /\ Truthy(timeout)
           /\ python_expires
           /\ encode_recompute(expires, timeout_trigger, time_now)
        THEN ("x" :> (time_now + timeout)) @@ withT
        ELSE withT

\* (mutant) a recomputed expiry is the current time, the timeout left out
encode_session_payload_x_now(managed_dict, created, timeout, expires, timeout_trigger, python_expires, time_now) ==
    LET data == base_payload(managed_dict, created)
        withX == IF Truthy(expires) /\ python_expires
                 THEN ("x" :> expires) @@ data ELSE data
        withT == IF Truthy(timeout) THEN ("t" :> timeout) @@ withX ELSE withX
    IN  IF /\ Truthy(timeout)
           /\ python_expires
           /\ encode_recompute(expires, timeout_trigger, time_now)
        THEN ("x" :> time_now) @@ withT
        ELSE withT

\* (mutant) a given expiry is written whether or not expiry is tracked
encode_session_payload_x_untracked(managed_dict, created, timeout, expires, timeout_trigger, python_expires, time_now) ==
    LET data == base_payload(managed_dict, created)
        withX == IF Truthy(expires)
                 THEN ("x" :> expires) @@ data ELSE data
        withT == IF Truthy(timeout) THEN ("t" :> timeout) @@ withX ELSE withX
    IN  IF /\ Truthy(timeout)
           /\ python_expires
           /\ encode_recompute(expires, timeout_trigger, time_now)
        THEN ("x" :> (time_now + timeout)) @@ withT
        ELSE withT

\* encode_session_payload(...) with int_time() = time_now
encode_session_payload(managed_dict, created, timeout, expires, timeout_trigger, python_expires, time_now) ==
    LET data == base_payload(managed_dict, created)
        withX == IF Truthy(expires) /\ python_expires
                 THEN ("x" :> expires) @@ data ELSE data
        withT == IF Truthy(timeout) THEN ("t" :> timeout) @@ withX ELSE withX
    IN  IF /\ Truthy(timeout)
           /\ python_expires
           /\ encode_recompute(expires, timeout_trigger, time_now)
        THEN ("x" :> (time_now + timeout)) @@ withT
        ELSE withT

decode_session_payload(payload) ==
    [managed_dict |-> payload["m"],
     created      |-> payload["c"],
     version      |-> payload["v"],
     timeout      |-> PayloadGet(payload, "t"),
     expires      |-> PayloadGet(payload, "x")]

\* ------------------------------------------------------------- Redis store
\* The keyspace is a function from the live keys to [val, ttl]: val is the
\* stored string, ttl the seconds the key has left (None: no TTL).

\* the caller-supplied serializer (e.g. pickle.dumps) and its inverse
serialize(data) == [ser |-> data]
deserialize(value) == value.ser

Put(st, k, rec) == [i \in (DOMAIN st) \cup {k} |-> IF i = k THEN rec ELSE st[i]]
Del(st, k) == [i \in (DOMAIN st) \ {k} |-> st[i]]

\* (mutant) the result of GET is not tested
redis_has_value_unchecked(st, k) == FALSE
\* GET key: "value is not None"
redis_has_value(st, k) == k \in DOMAIN st
\* SET key value: stores the value and discards any TTL
redis_set(st, k, value) == Put(st, k, [val |-> value, ttl |-> None])
\* SETEX key seconds value
redis_setex(st, k, seconds, value) == Put(st, k, [val |-> value, ttl |-> seconds])
\* EXPIRE key seconds: no-op on a missing key, deletes the key when seconds <= 0
redis_expire(st, k, seconds) ==
    IF k \notin DOMAIN st THEN st
    ELSE IF seconds <= 0 THEN Del(st, k)
    ELSE Put(st, k, [val |-> st[k].val, ttl |-> seconds])

\* ------------------------------------------------------------ configuration
\* module "new" is pyramid_session_redis, "old" is pyramid_redis_sessions.
\* The old module has no set_redis_ttl / python_expires / payload parameters
\* (it always sets the TTL) and coerces timeout to an int.
CallerPayload ==
    [k \in {"m", "c", "v"} |->
        CASE k = "m" -> [j \in {"a"} |-> 1] [] k = "c" -> 0 [] k = "v" -> SESSION_API_VERSION]
FuncPayload ==
    [k \in {"m", "c", "v"} |->
        CASE k = "m" -> EmptyDict [] k = "c" -> 0 [] k = "v" -> SESSION_API_VERSION]

\* a caller passes neither data_payload nor new_payload_func (then
\* python_expires is read), or one of them
NewConfigs ==
    [module : {"new"}, timeout : Timeouts, set_redis_ttl : BOOLEAN,
     python_expires : BOOLEAN, data_payload : {FALSE}, new_payload_func : {FALSE},
     timeout_trigger : {None}]
    \cup
    {[module |-> "new", timeout |-> Timeout, set_redis_ttl |-> TRUE,
      python_expires |-> FALSE, data_payload |-> d, new_payload_func |-> ~d,
      timeout_trigger |-> None] : d \in BOOLEAN}
OldConfigs ==
    [module : {"old"}, timeout : {0, Timeout}, set_redis_ttl : {TRUE},
     python_expires : {FALSE}, data_payload : {FALSE}, new_payload_func : {FALSE},
     timeout_trigger : {None}]
Configs == NewConfigs \cup OldConfigs

VARIABLES
    now,        \* the clock read by int_time()
    cfg,        \* the application's settings
    store,      \* the Redis keyspace
    handed,     \* per id: the callers handed it since the key last came to life
    pc,         \* per caller: position in create_unique_session_id
    sid,        \* per caller: session_id, the current candidate (None: none)
    payload,    \* per caller: _payload, the serialized initial payload
    dirty,      \* per caller: its watched key was touched since WATCH
    raced,      \* per caller: the id another client wrote between its GET and its EXEC
    err,        \* per caller: the store error its call met, "none" if none
    result,     \* per caller: the value create_unique_session_id returned
    call,       \* one encode / decode round trip: its arguments and results
    rec,        \* the record a session holds: decode_session_payload's kwargs
    stored,     \* the payload last written for that record
    perr,       \* the last persist of that record raised
    session,    \* per caller: the session it holds and its _session_state flags
    lastop      \* the last decorated call: who, which decorator, the outcome

allocVars == <<handed, pc, sid, payload, dirty, raced, result, err>>
codecVars == <<call, rec, stored, perr>>
sessVars == <<session, lastop>>
vars == <<now, cfg, store, handed, pc, sid, payload, dirty, raced, result, err, call, rec, stored, perr, session, lastop>>

\* the value another client stores under a key
RacerValue == serialize([k \in {"r"} |-> 1])
NoPayload == serialize([k \in {} |-> 0])

\* the key a caller's pipeline WATCHes: from pipe.watch to the end of the
\* `with` block, which resets the pipeline
watching(q) == IF pc[q] \in {"get", "exec"} THEN sid[q] ELSE None

\* every pipeline watching one of the touched keys, other than the writer's own
\* (None for another client), is marked dirty
Touch(keys, writer) ==
    [q \in Procs |-> dirty[q] \/ (q # writer /\ watching(q) \in keys)]

\* lines 199-204 (old module: line 74): the payload to insert
initial_payload(c, time_now) ==
    IF c.module = "old" THEN serialize(EmptyDict)
    ELSE IF c.data_payload THEN serialize(CallerPayload)
    ELSE IF c.new_payload_func THEN serialize(FuncPayload)
    ELSE serialize(empty_session_payload(c.timeout, c.python_expires, time_now))

\* the commands buffered between multi() and execute(), applied as one
insert_commands(st, c, k, value) ==
    IF c.module = "old"
    THEN redis_expire(redis_set(st, k, value), k, c.timeout)
    ELSE IF Truthy(c.timeout) /\ c.set_redis_ttl
         THEN redis_setex(st, k, c.timeout, value)
         ELSE redis_set(st, k, value)

\* (mutant) the set of an aborted transaction is applied, its TTL is not
aborted_commands_partial(st, c, k, value) == redis_set(st, k, value)

\* execute() raising WatchError: Redis discards every buffered command
aborted_commands(st, c, k, value) == st

\* (mutant) the transaction is executed without a watch
execute_aborts_unwatched(p) == FALSE
\* (mutant) WatchError is raised only when the key is gone again at EXEC
execute_aborts_if_absent(p) == dirty[p] /\ ~redis_has_value(store, sid[p])
\* pipe.execute(): WatchError when the watched key was touched since WATCH
execute_aborts(p) == dirty[p]

\* (mutant) the loop lacks its return
loop_next_stuck(attempt) == "gen"

\* (mutant) the loop returns the first attempt, None or not
loop_next_once(attempt) == "done"
\* `while 1` of create_unique_session_id: return the attempt unless it is None
loop_next(attempt) == IF attempt # None THEN "done" ELSE "gen"

\* an attempt that returned None: the pipeline is reset, the loop goes on
AttemptFailed(p) ==
    /\ pc' = [pc EXCEPT ![p] = loop_next(None)]
    /\ result' = [result EXCEPT ![p] = None]
    /\ sid' = [sid EXCEPT ![p] = IF loop_next(None) = "gen" THEN None ELSE @]
    /\ payload' = [payload EXCEPT ![p] = NoPayload]
    /\ dirty' = [dirty EXCEPT ![p] = FALSE]

\* session_id = generator(); the payload is built (lines 199-204) and the
\* pipeline starts watching the key: pipe.watch(session_id)
Generate(p) ==
    /\ pc[p] = "gen"
    /\ \E k \in Ids : sid' = [sid EXCEPT ![p] = k]
    /\ payload' = [payload EXCEPT ![p] = initial_payload(cfg, now)]
    /\ dirty' = [dirty EXCEPT ![p] = FALSE]
    /\ pc' = [pc EXCEPT ![p] = "get"]
    /\ UNCHANGED <<codecVars, sessVars, err, now, cfg, store, handed, raced, result>>

\* value = pipe.get(session_id); a value makes the attempt return None
Get(p) ==
    /\ pc[p] = "get"
    /\ IF redis_has_value(store, sid[p])
       THEN AttemptFailed(p)
       ELSE /\ pc' = [pc EXCEPT ![p] = "exec"]
            /\ UNCHANGED <<result, sid, payload, dirty>>
    /\ UNCHANGED <<codecVars, sessVars, err, now, cfg, store, handed, raced>>

\* pipe.multi(); pipe.setex / pipe.set (old: set, expire); pipe.execute()
Execute(p) ==
    /\ pc[p] = "exec"
    /\ IF execute_aborts(p)
       THEN /\ AttemptFailed(p)
            /\ store' = aborted_commands(store, cfg, sid[p], payload[p])
            /\ UNCHANGED handed
       ELSE /\ store' = insert_commands(store, cfg, sid[p], payload[p])
            /\ pc' = [pc EXCEPT ![p] = loop_next(sid[p])]
            /\ result' = [result EXCEPT ![p] = sid[p]]
            /\ dirty' = [Touch({sid[p]}, p) EXCEPT ![p] = FALSE]
            /\ handed' = [handed EXCEPT ![sid[p]] =
                            IF sid[p] \in DOMAIN store' THEN @ \cup {p} ELSE {}]
            /\ UNCHANGED <<sid, payload>>
    /\ UNCHANGED <<codecVars, sessVars, err, now, cfg, raced>>

\* the caller takes the id; it may call create_unique_session_id again
Return(p) ==
    /\ pc[p] = "done"
    /\ pc' = [pc EXCEPT ![p] = "gen"]
    /\ result' = [result EXCEPT ![p] = None]
    /\ sid' = [sid EXCEPT ![p] = None]
    /\ raced' = [raced EXCEPT ![p] = None]
    /\ payload' = [payload EXCEPT ![p] = NoPayload]
    /\ UNCHANGED <<codecVars, sessVars, err, now, cfg, store, handed, dirty>>

\* another client of the same Redis writes a key: SET k RacerValue
Racer(k) ==
    /\ store' = redis_set(store, k, RacerValue)
    /\ dirty' = Touch({k}, None)
    /\ raced' = [q \in Procs |->
                    IF pc[q] = "exec" /\ sid[q] = k THEN k ELSE raced[q]]
    /\ UNCHANGED <<codecVars, sessVars, err, now, cfg, handed, pc, sid, payload, result>>

\* the TTL of a key runs out and Redis removes the key (the allocation
\* specification leaves open how much time that takes)
Expire(k) ==
    /\ k \in DOMAIN store
    /\ store[k].ttl # None
    /\ store' = Del(store, k)
    /\ dirty' = Touch({k}, None)
    /\ handed' = [handed EXCEPT ![k] = {}]
    /\ UNCHANGED <<codecVars, sessVars, err, now, cfg, pc, sid, payload, raced, result>>

\* the errors a store call can raise besides WatchError
Errors == {"ConnectionError", "TimeoutError"}

\* (mutant) the handler catches every exception
except_clause_any(e) == "return None"

\* `except WatchError: return None`: any other exception leaves the function
except_clause(e) == IF e = "WatchError" THEN "return None" ELSE "raise"

\* a store call of p's attempt (watch, get, set / setex, execute) raises e.  No
\* handler of _insert_session_id_if_unique or create_unique_session_id takes
\* it, the pipeline is reset on the way out, and the caller gets e.  When the
\* call that failed is execute, the transaction may have been applied before
\* the reply was lost.
StoreError(p, e) ==
    /\ pc[p] \in {"gen", "get", "exec"}
    /\ err' = [err EXCEPT ![p] = e]
    /\ IF except_clause(e) = "raise"
       THEN /\ pc' = [pc EXCEPT ![p] = "raised"]
            /\ result' = [result EXCEPT ![p] = None]
            /\ sid' = [sid EXCEPT ![p] = None]
            /\ payload' = [payload EXCEPT ![p] = NoPayload]
            /\ \/ /\ dirty' = [dirty EXCEPT ![p] = FALSE]
                  /\ UNCHANGED store
               \/ /\ pc[p] = "exec" /\ ~execute_aborts(p)
                  /\ store' = insert_commands(store, cfg, sid[p], payload[p])
                  /\ dirty' = [Touch({sid[p]}, p) EXCEPT ![p] = FALSE]
       ELSE /\ AttemptFailed(p)
            /\ UNCHANGED store
    /\ UNCHANGED <<codecVars, sessVars, now, cfg, handed, raced>>

InitAlloc ==
    /\ handed = [k \in Ids |-> {}]
    /\ pc = [p \in Procs |-> "gen"]
    /\ sid = [p \in Procs |-> None]
    /\ payload = [p \in Procs |-> NoPayload]
    /\ dirty = [p \in Procs |-> FALSE]
    /\ raced = [p \in Procs |-> None]
    /\ result = [p \in Procs |-> None]
    /\ err = [p \in Procs |-> "none"]

\* no codec round trip under way, no record held
NoDecoded ==
    [managed_dict |-> EmptyDict, created |-> None, version |-> None,
     timeout |-> None, expires |-> None]
NoCall ==
    [phase |-> "none", m |-> EmptyDict, c |-> None, t |-> None, x |-> None,
     trig |-> None, pe |-> FALSE, tn |-> None,
     raised |-> FALSE, data |-> EmptyDict, decoded |-> NoDecoded]
InitCodecIdle ==
    /\ call = NoCall
    /\ rec = NoDecoded
    /\ stored = EmptyDict
    /\ perr = FALSE

\* no session held, no decorated call made
NoSession ==
    [session_id |-> None, managed_dict |-> EmptyDict,
     please_refresh |-> FALSE, please_persist |-> FALSE,
     created |-> None, expires |-> None, trips |-> 0, synced |-> 0,
     flushed |-> FALSE]
NoOp == [who |-> None, kind |-> "none", raised |-> FALSE, cmds |-> << >>]
InitSessIdle ==
    /\ session = [p \in Procs |-> NoSession]
    /\ lastop = NoOp

Init ==
    /\ now = 0
    /\ cfg \in Configs
    /\ store = [k \in {} |-> 0]
    /\ InitAlloc
    /\ InitCodecIdle
    /\ InitSessIdle

Next ==
    \/ \E p \in Procs : Generate(p)
    \/ \E p \in Procs : Get(p)
    \/ \E p \in Procs : Execute(p)
    \/ \E p \in Procs : Return(p)
    \/ \E k \in Ids : Racer(k)
    \/ \E k \in Ids : Expire(k)

Spec == Init /\ [][Next]_vars

\* ------------------------------------------------- allocation, end to end
\* Callers create records with the default initial payload at some second of
\* the clock, one of the settings being timeout = 100 with the store-side TTL.
CreateConfigs ==
    [module : {"new"}, timeout : {None, 0, Timeout, 100}, set_redis_ttl : BOOLEAN,
     python_expires : BOOLEAN, data_payload : {FALSE}, new_payload_func : {FALSE},
     timeout_trigger : {None}]

InitCreate ==
    /\ now \in 0..MaxTime
    /\ cfg \in CreateConfigs
    /\ store = [k \in {} |-> 0]
    /\ InitAlloc
    /\ InitCodecIdle
    /\ InitSessIdle

NextCreate ==
    \E p \in Procs : Generate(p) \/ Get(p) \/ Execute(p) \/ Return(p)

SpecCreate == InitCreate /\ [][NextCreate]_vars

\* ------------------------------------------------- allocation, callers running
\* One call of each caller, with callers that keep running: a caller inside
\* create_unique_session_id goes on to its next statement.  What other
\* clients do, and when keys expire, is left open.
LoopConfigs ==
    {c \in Configs : /\ c.timeout = Timeout /\ c.set_redis_ttl /\ ~c.python_expires
                     /\ ~c.data_payload /\ ~c.new_payload_func}

InitLoop ==
    /\ Init
    /\ cfg \in LoopConfigs

NextLoop ==
    \/ \E p \in Procs : Generate(p) \/ Get(p) \/ Execute(p)
    \/ \E k \in Ids : Racer(k) \/ Expire(k)

SpecLoop ==
    /\ InitLoop
    /\ [][NextLoop]_vars
    /\ \A p \in Procs : WF_vars(Generate(p) \/ Get(p) \/ Execute(p))

\* ------------------------------------------------- allocation, failing store
\* The same allocation with a store whose calls can fail.
FailConfigs ==
    [module : {"new"}, timeout : {Timeout}, set_redis_ttl : BOOLEAN,
     python_expires : {TRUE}, data_payload : {FALSE}, new_payload_func : {FALSE},
     timeout_trigger : {None}]

InitFail ==
    /\ Init
    /\ cfg \in FailConfigs

NextFail ==
    \/ Next
    \/ \E p \in Procs, e \in Errors : StoreError(p, e)

SpecFail == InitFail /\ [][NextFail]_vars

\* --------------------------------------------------- codec round trips
\* One call of encode_session_payload followed by decode_session_payload, its
\* arguments drawn from a grid and from the documented trigger examples
\* (timeout 400, trigger 60, expires = created + 400).
CallGrid ==
    [m : Dicts, c : 0..1, t : Timeouts, x : {None} \cup (0..(MaxTime + Timeout)),
     trig : Triggers, pe : BOOLEAN, tn : 0..MaxTime]
CallExamples ==
    [m : {EmptyDict}, c : {1000}, t : {400}, x : {1400},
     trig : {60}, pe : {TRUE}, tn : {1300, 1340, 1350}]
CallInputs == CallGrid \cup CallExamples

\* create_unique_session_id's defaults with a timeout given (python_expires
\* defaults to None, which `if python_expires` takes as false); the settings
\* of the specifications that do not allocate
DefaultConfig ==
    [module |-> "new", timeout |-> Timeout, set_redis_ttl |-> TRUE,
     python_expires |-> FALSE, data_payload |-> FALSE, new_payload_func |-> FALSE,
     timeout_trigger |-> None]

EncodeCall ==
    /\ call.phase = "args"
    /\ IF encode_raises(call.t, call.x, call.trig, call.pe)
       THEN call' = [call EXCEPT !.phase = "raised", !.raised = TRUE]
       ELSE call' = [call EXCEPT !.phase = "encoded",
                        !.data = encode_session_payload(call.m, call.c, call.t,
                                     call.x, call.trig, call.pe, call.tn)]
    /\ UNCHANGED <<sessVars, now, cfg, store, allocVars, rec, stored, perr>>

DecodeCall ==
    /\ call.phase = "encoded"
    /\ call' = [call EXCEPT !.phase = "decoded",
                   !.decoded = decode_session_payload(call.data)]
    /\ UNCHANGED <<sessVars, now, cfg, store, allocVars, rec, stored, perr>>

InitCall ==
    /\ now = 0
    /\ cfg = DefaultConfig
    /\ store = [k \in {} |-> 0]
    /\ InitAlloc
    /\ \E i \in CallInputs :
         call = [NoCall EXCEPT !.phase = "args", !.m = i.m, !.c = i.c, !.t = i.t,
                    !.x = i.x, !.trig = i.trig, !.pe = i.pe, !.tn = i.tn]
    /\ rec = NoDecoded
    /\ stored = EmptyDict
    /\ perr = FALSE
    /\ InitSessIdle

NextCall == EncodeCall \/ DecodeCall

SpecCall == InitCall /\ [][NextCall]_vars

\* ------------------------------------------------------ record lifecycle
\* One record from its creation on: the session holds the decoded payload,
\* its working data is changed, and every persist encodes what the session
\* holds and stores it; the next unit of work decodes what was stored.

\* one second passes: every TTL counts down and Redis removes the keys whose
\* TTL ran out
Aged(st) ==
    [k \in {j \in DOMAIN st : st[j].ttl = None \/ st[j].ttl > 1} |->
        [val |-> st[k].val,
         ttl |-> IF st[k].ttl = None THEN None ELSE st[k].ttl - 1]]
Tick ==
    /\ now < MaxTime
    /\ now' = now + 1
    /\ store' = Aged(store)
    /\ dirty' = Touch((DOMAIN store) \ (DOMAIN Aged(store)), None)
    /\ handed' = [k \in Ids |-> IF k \in DOMAIN Aged(store) THEN handed[k] ELSE {}]
    /\ UNCHANGED <<codecVars, sessVars, err, cfg, pc, sid, payload, raced, result>>

\* the caller replaces the working data of the session
Mutate(d) ==
    /\ rec.managed_dict # d
    /\ rec' = [rec EXCEPT !.managed_dict = d]
    /\ UNCHANGED <<sessVars, now, cfg, store, allocVars, call, stored, perr>>

\* the session is persisted: encode what it holds, store it; the next unit of
\* work holds the decoded payload.  A TypeError of the encode propagates.
Persist ==
    /\ IF encode_raises(rec.timeout, rec.expires, cfg.timeout_trigger, cfg.python_expires)
       THEN /\ perr' = TRUE
            /\ UNCHANGED <<rec, stored>>
       ELSE /\ perr' = FALSE
            /\ stored' = encode_session_payload(rec.managed_dict, rec.created,
                             rec.timeout, rec.expires, cfg.timeout_trigger,
                             cfg.python_expires, now)
            /\ rec' = decode_session_payload(stored')
    /\ UNCHANGED <<sessVars, now, cfg, store, allocVars, call>>

\* the settings a record is persisted under
CodecConfigs ==
    [module : {"new"}, timeout : Timeouts, set_redis_ttl : {TRUE},
     python_expires : BOOLEAN, data_payload : {FALSE}, new_payload_func : {FALSE},
     timeout_trigger : Triggers]

\* the record was created by empty_session_payload at second 0 or 1, under the
\* current python_expires setting or under the other one
InitCodec ==
    /\ now \in 0..1
    /\ cfg \in CodecConfigs
    /\ store = [k \in {} |-> 0]
    /\ InitAlloc
    /\ call = NoCall
    /\ \E pe0 \in BOOLEAN : stored = empty_session_payload(cfg.timeout, pe0, now)
    /\ rec = decode_session_payload(stored)
    /\ perr = FALSE
    /\ InitSessIdle

NextCodec ==
    \/ Tick
    \/ \E d \in Dicts : Mutate(d)
    \/ Persist

SpecCodec == InitCodec /\ [][NextCodec]_vars

\* ------------------------------------------------- deferred-write decorators
\* Callers hold a session loaded from the key the allocator created and call
\* its decorated methods.  A decorated call runs the wrapped method, which may
\* change the working data or raise, and then the decorator's own statement.

\* session.to_redis() of the old module: the serialized working data
to_redis(s) == serialize(s.managed_dict)

\* the commands of one call or flush go to the store in one round trip
round_trips(n, cmds) == IF cmds = << >> THEN n ELSE n + 1

\* (mutant) the new refresh decorator touches the TTL itself
wrapped_refresh_eager(c, st, s) ==
    [session |-> [s EXCEPT !.please_refresh = TRUE],
     store   |-> redis_expire(st, s.session_id, c.timeout),
     cmds    |-> <<"EXPIRE">>]

\* wrapped_refresh after wrapped(session) returned, s being the session then
wrapped_refresh(c, st, s) ==
    IF c.module = "new"
    THEN [session |-> [s EXCEPT !.please_refresh = TRUE],
          store   |-> st,
          cmds    |-> << >>]
    ELSE [session |-> s,
          store   |-> redis_expire(st, s.session_id, c.timeout),
          cmds    |-> <<"EXPIRE">>]

\* (mutant) the old persist decorator keeps the stored keys its session lacks
wrapped_persist_merge(c, st, s) ==
    IF c.module = "new"
    THEN [session |-> [s EXCEPT !.please_persist = TRUE],
          store   |-> st,
          cmds    |-> << >>]
    ELSE [session |-> s,
          store   |-> redis_expire(
                        redis_set(st, s.session_id,
                            IF redis_has_value(st, s.session_id)
                            THEN serialize(s.managed_dict @@ deserialize(st[s.session_id].val))
                            ELSE to_redis(s)),
                        s.session_id, c.timeout),
          cmds    |-> <<"SET", "EXPIRE">>]

\* (mutant) the persist decorator marks the refresh as pending too
wrapped_persist_both(c, st, s) ==
    [session |-> [s EXCEPT !.please_persist = TRUE, !.please_refresh = TRUE],
     store   |-> st,
     cmds    |-> << >>]

\* (mutant) the persist decorator writes at once and leaves the flag pending
wrapped_persist_eager(c, st, s) ==
    [session |-> [s EXCEPT !.please_persist = TRUE],
     store   |-> redis_expire(redis_set(st, s.session_id, to_redis(s)),
                              s.session_id, c.timeout),
     cmds    |-> <<"SET", "EXPIRE">>]

\* wrapped_persist after wrapped(session) returned, s being the session then
wrapped_persist(c, st, s) ==
    IF c.module = "new"
    THEN [session |-> [s EXCEPT !.please_persist = TRUE],
          store   |-> st,
          cmds    |-> << >>]
    ELSE [session |-> s,
          store   |-> redis_expire(redis_set(st, s.session_id, to_redis(s)),
                                   s.session_id, c.timeout),
          cmds    |-> <<"SET", "EXPIRE">>]

\* (mutant) the decorator sets its flag before it calls the wrapped method
wrapped_raised_flagged(kind, s) ==
    IF kind = "refresh" THEN [s EXCEPT !.please_refresh = TRUE]
    ELSE [s EXCEPT !.please_persist = TRUE]

\* wrapped(session) raised: the statement after it is not reached, the
\* session is as the wrapped method left it
wrapped_raised(kind, s) == s

\* a call of a method decorated with `kind`: the wrapped method leaves the
\* working data as d and returns, or raises, and then no statement of the
\* decorator runs
DecoratedCall(p, kind, d, raises) ==
    LET s   == [session[p] EXCEPT !.managed_dict = d]
        out == IF kind = "refresh" THEN wrapped_refresh(cfg, store, s)
               ELSE wrapped_persist(cfg, store, s)
    IN  /\ session[p].session_id # None
        /\ ~session[p].flushed
        /\ session[p].trips < MaxTrips
        /\ IF raises
           THEN /\ session' = [session EXCEPT ![p] = wrapped_raised(kind, s)]
                /\ lastop' = [who |-> p, kind |-> kind, raised |-> TRUE, cmds |-> << >>]
                /\ UNCHANGED <<store, dirty>>
           ELSE /\ session' = [session EXCEPT ![p] =
                                  [out.session EXCEPT !.trips = round_trips(@, out.cmds)]]
                /\ lastop' = [who |-> p, kind |-> kind, raised |-> FALSE, cmds |-> out.cmds]
                /\ store' = out.store
                /\ dirty' = IF out.cmds = << >> THEN dirty
                            ELSE Touch({s.session_id}, None)
        /\ UNCHANGED <<codecVars, err, now, cfg, handed, pc, sid, payload, raced, result>>

RefreshCall(p) ==
    \E d \in Dicts, raises \in BOOLEAN : DecoratedCall(p, "refresh", d, raises)

PersistCall(p) ==
    \E d \in Dicts, raises \in BOOLEAN : DecoratedCall(p, "persist", d, raises)

\* the settings sessions run under: a TTL touch sends the session's timeout,
\* so the sessions have one, with store-side TTL tracking on or off
SessionConfigs ==
    [module : {"new"}, timeout : {Timeout}, set_redis_ttl : BOOLEAN,
     python_expires : {FALSE}, data_payload : {FALSE}, new_payload_func : {FALSE},
     timeout_trigger : {None}]
    \cup
    [module : {"new"}, timeout : {Timeout}, set_redis_ttl : {TRUE},
     python_expires : {TRUE}, data_payload : {FALSE}, new_payload_func : {FALSE},
     timeout_trigger : {None}]
    \cup
    [module : {"old"}, timeout : {Timeout}, set_redis_ttl : {TRUE},
     python_expires : {FALSE}, data_payload : {FALSE}, new_payload_func : {FALSE},
     timeout_trigger : {None}]

\* store-side TTL tracking is in use
store_ttl(c) == Truthy(c.timeout) /\ c.set_redis_ttl

\* the session a unit of work holds after loading the stored value: the new
\* module decodes the payload, the old module stores the working data bare
load_session(c, k, value) ==
    IF c.module = "new"
    THEN LET r == decode_session_payload(deserialize(value))
         IN  [NoSession EXCEPT !.session_id = k, !.managed_dict = r.managed_dict,
                               !.created = r.created, !.expires = r.expires]
    ELSE [NoSession EXCEPT !.session_id = k, !.managed_dict = deserialize(value)]

\* the value a pending persist writes: the whole record, encoded anew
flush_value(c, s, time_now) ==
    serialize(encode_session_payload(s.managed_dict, s.created, c.timeout, s.expires,
                  c.timeout_trigger, c.python_expires, time_now))

\* (mutant) a pending refresh alone is skipped when store-side TTL tracking
\* is off
flush_out_tracked_only(c, st, s, time_now) ==
    IF s.please_persist
    THEN IF store_ttl(c)
         THEN [store |-> redis_setex(st, s.session_id, c.timeout, flush_value(c, s, time_now)),
               cmds  |-> <<"SETEX">>]
         ELSE [store |-> redis_set(st, s.session_id, flush_value(c, s, time_now)),
               cmds  |-> <<"SET">>]
    ELSE IF s.please_refresh /\ store_ttl(c)
    THEN [store |-> redis_expire(st, s.session_id, c.timeout), cmds |-> <<"EXPIRE">>]
    ELSE [store |-> st, cmds |-> << >>]

\* what a flush sends, by the pending flags: a pending persist writes the
\* full value, with the TTL if store-side TTL tracking is on; a pending
\* refresh alone touches the TTL and writes no payload; neither sends nothing
flush_out(c, st, s, time_now) ==
    IF s.please_persist
    THEN IF store_ttl(c)
         THEN [store |-> redis_setex(st, s.session_id, c.timeout, flush_value(c, s, time_now)),
               cmds  |-> <<"SETEX">>]
         ELSE [store |-> redis_set(st, s.session_id, flush_value(c, s, time_now)),
               cmds  |-> <<"SET">>]
    ELSE IF s.please_refresh
    THEN [store |-> redis_expire(st, s.session_id, c.timeout), cmds |-> <<"EXPIRE">>]
    ELSE [store |-> st, cmds |-> << >>]

\* the one flush point of a unit of work
Flush(p) ==
    LET out == flush_out(cfg, store, session[p], now)
    IN  /\ session[p].session_id # None
        /\ ~session[p].flushed
        /\ session' = [session EXCEPT ![p].flushed = TRUE,
                                      ![p].trips = round_trips(@, out.cmds)]
        /\ lastop' = [who |-> p, kind |-> "flush", raised |-> FALSE, cmds |-> out.cmds]
        /\ store' = out.store
        /\ dirty' = IF out.cmds = << >> THEN dirty
                    ELSE Touch({session[p].session_id}, None)
        /\ UNCHANGED <<codecVars, err, now, cfg, handed, pc, sid, payload, raced, result>>

\* the session after an immediate flush: what was pending has been applied
\* and is pending no more
flushed_now(s) == [s EXCEPT !.please_refresh = FALSE, !.please_persist = FALSE]

\* the explicit immediate flush: what is pending is sent now, in the middle
\* of the unit of work, which goes on
FlushNow(p) ==
    LET out == flush_out(cfg, store, session[p], now)
    IN  /\ session[p].session_id # None
        /\ ~session[p].flushed
        /\ session[p].synced < MaxSyncs
        /\ session' = [session EXCEPT ![p] =
                          [flushed_now(@) EXCEPT !.synced = @ + 1,
                                                 !.trips = round_trips(@, out.cmds)]]
        /\ lastop' = [who |-> p, kind |-> "flush_now", raised |-> FALSE, cmds |-> out.cmds]
        /\ store' = out.store
        /\ dirty' = IF out.cmds = << >> THEN dirty
                    ELSE Touch({session[p].session_id}, None)
        /\ UNCHANGED <<codecVars, err, now, cfg, handed, pc, sid, payload, raced, result>>

\* the caller's next unit of work loads the session from the key again
Begin(p) ==
    /\ session[p].flushed
    /\ redis_has_value(store, session[p].session_id)
    /\ session' = [session EXCEPT ![p] =
                      load_session(cfg, session[p].session_id,
                                   store[session[p].session_id].val)]
    /\ lastop' = [who |-> p, kind |-> "begin", raised |-> FALSE, cmds |-> <<"GET">>]
    /\ UNCHANGED <<codecVars, now, cfg, store, allocVars>>

\* the key the callers' requests share, the two callers whose requests hold
\* its session, and the session each loaded from it
SharedId == 1
Holders == {1, 2}
InitSession ==
    /\ now = 0
    /\ cfg \in SessionConfigs
    /\ store = insert_commands([k \in {} |-> 0], cfg, SharedId, initial_payload(cfg, 0))
    /\ InitAlloc
    /\ InitCodecIdle
    /\ session = [p \in Procs |->
                     IF p \in Holders
                     THEN load_session(cfg, SharedId, initial_payload(cfg, 0))
                     ELSE NoSession]
    /\ lastop = NoOp

NextSession ==
    \/ \E p \in Procs : RefreshCall(p)
    \/ \E p \in Procs : PersistCall(p)
    \/ \E p \in Procs : Flush(p)
    \/ \E p \in Procs : Begin(p)
    \/ Tick

SpecSession == InitSession /\ [][NextSession]_vars

\* --------------------------------------------------- one unit of work, flushed
\* One caller's units of work on the key, with the immediate flush in use.
FlushHolder == 1
\* the settings of that caller's session
FlushConfigs ==
    [module : {"old"}, timeout : {Timeout}, set_redis_ttl : {TRUE},
     python_expires : {FALSE}, data_payload : {FALSE}, new_payload_func : {FALSE},
     timeout_trigger : {None}]
    \cup
    [module : {"new"}, timeout : {Timeout}, set_redis_ttl : BOOLEAN,
     python_expires : BOOLEAN, data_payload : {FALSE}, new_payload_func : {FALSE},
     timeout_trigger : {None}]
InitFlush ==
    /\ now = 0
    /\ cfg \in FlushConfigs
    /\ store = insert_commands([k \in {} |-> 0], cfg, SharedId, initial_payload(cfg, 0))
    /\ InitAlloc
    /\ InitCodecIdle
    /\ session = [p \in Procs |->
                     IF p = FlushHolder
                     THEN load_session(cfg, SharedId, initial_payload(cfg, 0))
                     ELSE NoSession]
    /\ lastop = NoOp

NextFlush ==
    \/ RefreshCall(FlushHolder)
    \/ PersistCall(FlushHolder)
    \/ Flush(FlushHolder)
    \/ FlushNow(FlushHolder)
    \/ Begin(FlushHolder)
    \/ Tick

SpecFlush == InitFlush /\ [][NextFlush]_vars

\* ------------------------------------------------------- allocation claims

\* a step of caller p that ends an attempt by committing its insert
Commits(p) == pc[p] = "exec" /\ pc'[p] = "done"

\* C1: with any callers sharing one store, and while created keys stay live,
\* no id is returned to two callers: of the callers whose generators yield the
\* same candidate at most one commits its insert for it; every other attempt
\* for it ends with None and the caller goes on to generate a new candidate.
C1_NoIdHandedTwice ==
    /\ \A k \in Ids : Cardinality(handed[k]) <= 1
    /\ \A p, q \in Procs :
        (p # q /\ pc[p] = "done" /\ pc[q] = "done" /\ result[p] = result[q])
            => ~({p, q} \subseteq handed[result[p]])
C1_Witness ==
    \E p, q \in Procs :
        /\ p # q
        /\ pc[p] = "done" /\ handed[result[p]] = {p}
        /\ store[result[p]].val = payload[p]
        /\ pc[q] = "exec" /\ sid[q] = result[p] /\ dirty[q]

\* C2: whenever _insert_session_id_if_unique returns the session_id, the key
\* held no value at the read under the watch and nobody changed the key
\* between the watch and the commit: an allocation attempt never overwrites a
\* value a key already holds.
C2_NeverOverwrites ==
    [][\A p \in Procs :
        /\ Commits(p) => (~dirty[p] /\ sid[p] \notin DOMAIN store)
        /\ (pc'[p] # pc[p]) =>
             \A k \in DOMAIN store : k \in DOMAIN store' => store'[k] = store[k]
      ]_vars
C2_Witness ==
    \E p, q \in Procs :
        /\ p # q
        /\ pc[p] = "done" /\ handed[result[p]] = {p}
        /\ store[result[p]].val = payload[p]
        /\ pc[q] = "get" /\ sid[q] = result[p]

\* C3 (pyramid_session_redis): when another client writes the candidate id
\* between the allocator's watch and its commit, the commit is aborted and the
\* allocator retries; the id it then returns is a different one, and the store
\* holds the racer's record, as the racer wrote it, under the one id and the
\* allocator's record under the other.
C3_RacerForcesRetry ==
    [][\A p \in Procs : cfg.module = "new" =>
        /\ (pc[p] = "exec" /\ raced[p] = sid[p] /\ pc'[p] # pc[p]) =>
             (pc'[p] = "gen" /\ result'[p] = None /\ store' = store)
        /\ (Commits(p) /\ raced[p] # None) =>
             /\ result'[p] # raced[p]
             /\ raced[p] \in DOMAIN store'
             /\ store'[raced[p]] = [val |-> RacerValue, ttl |-> None]
             /\ result'[p] \in DOMAIN store'
             /\ store'[result'[p]].val = payload[p]
      ]_vars
C3_Witness ==
    \E p \in Procs :
        /\ cfg.module = "new"
        /\ pc[p] = "done" /\ raced[p] # None /\ result[p] # raced[p]
        /\ store[raced[p]].val = RacerValue
        /\ store[result[p]].val = payload[p]

\* C4: an allocation conflict is never surfaced: an attempt that finds a value
\* under the candidate key, or whose commit is aborted by WatchError, returns
\* None and the loop goes on with a fresh candidate; create_unique_session_id
\* never returns None, and what it returns is the id of a committed insert.
C4_ConflictsRetried ==
    [][\A p \in Procs :
        /\ ( pc'[p] # pc[p]
             /\ \/ (pc[p] = "get" /\ sid[p] \in DOMAIN store)
                \/ (pc[p] = "exec" /\ dirty[p]) )
           => (pc'[p] = "gen" /\ result'[p] = None /\ sid'[p] = None)
        /\ (pc'[p] = "done" /\ pc[p] # "done") =>
             /\ result'[p] \in Ids
             /\ result'[p] = sid[p]
             /\ pc[p] = "exec" /\ ~dirty[p]
             /\ store' = insert_commands(store, cfg, sid[p], payload[p])
        /\ (pc'[p] = "done") => result'[p] # None
      ]_vars
C4_Witness ==
    \E p, q \in Procs :
        /\ pc[p] = "gen" /\ raced[p] # None /\ result[p] = None
        /\ pc[q] = "gen" /\ raced[q] = None /\ q # p
        /\ \E k \in Ids : handed[k] = {q}

\* C5: a successful allocation sets value and TTL (= timeout) in one step
\* when timeout and set_redis_ttl are both truthy, and otherwise (timeout
\* unset or zero, or set_redis_ttl false) writes the key with no TTL.
C5_Claimed ==
    [][\A p \in Procs : Commits(p) =>
        /\ sid[p] \in DOMAIN store'
        /\ store'[sid[p]].val = payload[p]
        /\ store'[sid[p]].ttl =
             (IF Truthy(cfg.timeout) /\ cfg.set_redis_ttl THEN cfg.timeout ELSE None)
      ]_vars
\* get_unique_session_id of pyramid_redis_sessions with timeout = 0 has
\* returned an id as inserted, and the store holds no key for it
C5_Witness ==
    \E p \in Procs :
        /\ cfg.module = "old" /\ cfg.timeout = 0
        /\ pc[p] = "done" /\ result[p] = sid[p]
        /\ ~redis_has_value(store, result[p])
        /\ raced[p] = None

\* ------------------------------------------------------------ codec claims

\* C6 as claimed: decode(encode(m, c, t, x)) gives back exactly m, c, the
\* version, the same timeout and the same expires.
C6_Claimed ==
    (call.phase = "decoded" /\ call.trig = None /\ ~call.pe) =>
        call.decoded = [managed_dict |-> call.m, created |-> call.c,
                        version |-> SESSION_API_VERSION,
                        timeout |-> call.t, expires |-> call.x]

\* what encode_session_payload leaves under 'x', read back by decode
RoundTripExpires(c) ==
    IF ~c.pe THEN None
    ELSE IF Truthy(c.t) /\ (~Truthy(c.trig) \/ c.tn >= c.x - c.trig) THEN c.tn + c.t
    ELSE IF Truthy(c.x) THEN c.x
    ELSE None

\* C6 (amended): decode(encode(...)) gives back exactly managed_dict, created
\* and version = SESSION_API_VERSION; timeout comes back as given when it is
\* truthy and as None when it is unset or 0; expires comes back as None when
\* python_expires is off (as with the default arguments), and otherwise as
\* the 'x' the encode wrote: now + timeout when timeout is set and the
\* recompute is due, else the given expires when truthy, else None.
C6_RoundTrip ==
    (call.phase = "decoded") =>
        call.decoded = [managed_dict |-> call.m, created |-> call.c,
                        version |-> SESSION_API_VERSION,
                        timeout |-> (IF Truthy(call.t) THEN call.t ELSE None),
                        expires |-> RoundTripExpires(call)]
C6_Witness ==
    /\ call.phase = "decoded"
    /\ call.t = 0 /\ call.decoded.timeout = None
    /\ call.x # None /\ ~call.pe /\ call.decoded.expires = None
    /\ call.decoded.managed_dict = call.m /\ call.m # EmptyDict

\* C7: with timeout set and python_expires enabled, the encoded expiry is
\* now + timeout on every encode when timeout_trigger is unset or zero;
\* otherwise it is now + timeout iff now >= expires - timeout_trigger, and the
\* prior expires is kept when the recompute is skipped.  With timeout 400 and
\* trigger 60: now = expires - 100 skips, now = expires - 50 and the boundary
\* now = expires - 60 recompute.
C7_RecomputePolicy ==
    /\ (call.phase \in {"encoded", "decoded"} /\ Truthy(call.t) /\ call.pe) =>
         /\ "x" \in DOMAIN call.data
         /\ call.data["x"] =
              (IF ~Truthy(call.trig) THEN call.tn + call.t
               ELSE IF call.tn >= call.x - call.trig THEN call.tn + call.t
               ELSE call.x)
    /\ (call.phase \in {"encoded", "decoded"} /\ call.t = 400 /\ call.trig = 60) =>
         /\ (call.tn = call.x - 100) => call.data["x"] = call.x
         /\ (call.tn = call.x - 50) => call.data["x"] = call.tn + 400
         /\ (call.tn = call.x - 60) => call.data["x"] = call.tn + 400
C7_Witness ==
    /\ call.phase = "encoded"
    /\ call.t = 400 /\ call.trig = 60 /\ call.pe
    /\ call.tn = call.x - 60
    /\ call.data["x"] = call.tn + 400

\* C8: across the persists of one record, each encode receiving the expires
\* the previous one produced, the 'x' an encode writes is never smaller than
\* the expires the record held before it.
C8_ExpiresOnlyForward ==
    [][("x" \in DOMAIN stored' /\ rec.expires # None) => stored'["x"] >= rec.expires]_vars
C8_Witness ==
    /\ "x" \in DOMAIN stored /\ "t" \in DOMAIN stored
    /\ stored["x"] > stored["c"] + stored["t"]
    /\ rec.expires = stored["x"]
    /\ Truthy(cfg.timeout_trigger)

\* C9: every payload of a record that carries 'x' has x >= c + t.
C9_ExpiresAtLeastCreatedPlusTimeout ==
    ("x" \in DOMAIN stored) =>
        ("t" \in DOMAIN stored /\ stored["x"] >= stored["c"] + stored["t"])
C9_Witness ==
    /\ "x" \in DOMAIN stored
    /\ stored["x"] = stored["c"] + stored["t"]
    /\ stored["m"] # EmptyDict
    /\ now > stored["c"]

\* -------------------------------------------------------- decorator claims

\* a step that is a decorated call of caller p
OpStep(p) ==
    /\ lastop'.who = p
    /\ lastop'.kind \in {"refresh", "persist"}
    /\ now' = now
    /\ (lastop' # lastop \/ session' # session \/ store' # store)

\* what a decorated call that returned leaves pending
FlagSet(p) ==
    IF lastop'.kind = "refresh" THEN session'[p].please_refresh
    ELSE session'[p].please_persist

\* C10 as claimed: a call wrapped by refresh or persist makes no store call;
\* it sets its pending flag and leaves the value and TTL of the key as they are.
C10_Claimed ==
    [][\A p \in Procs : OpStep(p) =>
        /\ store' = store
        /\ lastop'.cmds = << >>
        /\ (~lastop'.raised) => FlagSet(p)
      ]_vars

\* C10 (amended): in pyramid_session_redis a call wrapped by refresh or
\* persist makes no store call: it only sets please_refresh / please_persist
\* and leaves the value and TTL of the key as they are.  The decorators of
\* the older pyramid_redis_sessions set no flag: once the wrapped method has
\* returned, refresh sends EXPIRE and persist sends SET and EXPIRE.
C10_DeferredWrites ==
    [][\A p \in Procs : OpStep(p) =>
        IF cfg.module = "new"
        THEN /\ store' = store
             /\ lastop'.cmds = << >>
             /\ (~lastop'.raised) => FlagSet(p)
             /\ session'[p].session_id = session[p].session_id
        ELSE /\ session'[p].please_refresh = session[p].please_refresh
             /\ session'[p].please_persist = session[p].please_persist
             /\ (~lastop'.raised) =>
                  /\ lastop'.cmds = (IF lastop'.kind = "refresh" THEN <<"EXPIRE">>
                                     ELSE <<"SET", "EXPIRE">>)
                  /\ SharedId \in DOMAIN store => store'[SharedId].ttl = cfg.timeout
                  /\ (lastop'.kind = "persist") =>
                       store'[SharedId] = [val |-> serialize(session'[p].managed_dict),
                                           ttl |-> cfg.timeout]
      ]_vars
C10_Witness ==
    \E p \in Procs :
        /\ cfg.module = "new" /\ Truthy(cfg.timeout) /\ cfg.set_redis_ttl
        /\ lastop = [who |-> p, kind |-> "persist", raised |-> FALSE, cmds |-> << >>]
        /\ session[p].please_persist /\ ~session[p].please_refresh
        /\ session[p].managed_dict # EmptyDict
        /\ store[SharedId] = [val |-> initial_payload(cfg, 0), ttl |-> cfg.timeout - 1]

\* the payload writes and the TTL touches among the commands of a round trip
PayloadWrites(cmds) == Cardinality({i \in DOMAIN cmds : cmds[i] \in {"SET", "SETEX"}})
TtlTouches(cmds) == Cardinality({i \in DOMAIN cmds : cmds[i] \in {"EXPIRE", "SETEX"}})

\* a step that is a flush of caller p: the one that ends its unit of work,
\* or an immediate one
FlushStep(p) ==
    /\ lastop'.who = p
    /\ lastop'.kind \in {"flush", "flush_now"}
    /\ \/ ~session[p].flushed /\ session'[p].flushed
       \/ session'[p].synced = session[p].synced + 1

\* the last step was the flush that ended p's unit of work
Flushed(p) == session[p].flushed /\ lastop.who = p /\ lastop.kind = "flush"

\* C11 as claimed: a unit of work makes zero or one store round trips for
\* its record however many decorated calls it made; a flush sends one TTL
\* touch and no payload write for a pending refresh alone, exactly one
\* payload write and one TTL touch (two commands or one combined) for a
\* pending persist, and nothing with neither flag.
C11_Claimed ==
    [][\A p \in Procs :
        /\ session'[p].synced = 0 => session'[p].trips <= 1
        /\ FlushStep(p) =>
             /\ session[p].please_persist =>
                  /\ PayloadWrites(lastop'.cmds) = 1
                  /\ TtlTouches(lastop'.cmds) = 1
             /\ (session[p].please_refresh /\ ~session[p].please_persist) =>
                  /\ PayloadWrites(lastop'.cmds) = 0
                  /\ TtlTouches(lastop'.cmds) = 1
             /\ (~session[p].please_refresh /\ ~session[p].please_persist) =>
                  lastop'.cmds = << >>
      ]_vars

\* C11 (amended): in pyramid_session_redis a decorated call makes no store
\* round trip and each flush makes at most one, so a unit of work makes zero
\* or one round trips beside those of its immediate flushes, however many
\* decorated calls it made.  A flush with a persist pending sends exactly
\* one payload write, the whole record encoded anew, carrying the TTL when
\* store-side TTL tracking is on and with no TTL touch when it is off; with
\* a refresh alone pending it sends one TTL touch and no payload write; with
\* neither flag it sends nothing.  In pyramid_redis_sessions no flag is ever
\* pending and a flush sends nothing: every decorated call that returns
\* makes a round trip of its own.
C11_FlushRoundTrips ==
    [][\A p \in Procs :
        IF cfg.module = "new"
        THEN /\ session'[p].trips <= session'[p].synced + 1
             /\ ~session'[p].flushed => session'[p].trips <= session'[p].synced
             /\ OpStep(p) => session'[p].trips = session[p].trips
             /\ FlushStep(p) =>
                  /\ Len(lastop'.cmds) <= 1
                  /\ session'[p].trips = session[p].trips + Len(lastop'.cmds)
                  /\ session[p].please_persist =>
                       /\ PayloadWrites(lastop'.cmds) = 1
                       /\ TtlTouches(lastop'.cmds) =
                            (IF Truthy(cfg.timeout) /\ cfg.set_redis_ttl THEN 1 ELSE 0)
                       /\ store'[SharedId] =
                            [val |-> serialize(encode_session_payload(
                                         session[p].managed_dict, session[p].created,
                                         cfg.timeout, session[p].expires,
                                         cfg.timeout_trigger, cfg.python_expires, now)),
                             ttl |-> IF Truthy(cfg.timeout) /\ cfg.set_redis_ttl
                                     THEN cfg.timeout ELSE None]
                  /\ (session[p].please_refresh /\ ~session[p].please_persist) =>
                       /\ PayloadWrites(lastop'.cmds) = 0
                       /\ TtlTouches(lastop'.cmds) = 1
                       /\ IF redis_has_value(store, SharedId)
                          THEN store'[SharedId] = [val |-> store[SharedId].val,
                                                   ttl |-> cfg.timeout]
                          ELSE store' = store
                  /\ (~session[p].please_refresh /\ ~session[p].please_persist) =>
                       /\ lastop'.cmds = << >>
                       /\ store' = store
        ELSE /\ ~session'[p].please_refresh /\ ~session'[p].please_persist
             /\ FlushStep(p) => (lastop'.cmds = << >> /\ store' = store)
             /\ (OpStep(p) /\ ~lastop'.raised) =>
                  session'[p].trips = session[p].trips + 1
      ]_vars
C11_Witness ==
    \E p \in Procs :
        /\ cfg.module = "new" /\ store_ttl(cfg)
        /\ Flushed(p)
        /\ session[p].synced = 0
        /\ session[p].please_persist /\ session[p].please_refresh
        /\ session[p].managed_dict # EmptyDict
        /\ session[p].trips = 1
        /\ lastop.cmds = <<"SETEX">>
        /\ now > 0
        /\ store[SharedId] = [val |-> flush_value(cfg, session[p], now), ttl |-> cfg.timeout]

\* C12 as claimed: in every reachable state please_persist entails
\* please_refresh.
C12_Claimed ==
    \A p \in Procs : session[p].please_persist => session[p].please_refresh

\* C12 (amended): the two flags are independent.  A persist-decorated call
\* that returns sets please_persist and leaves please_refresh as it was; a
\* refresh-decorated call that returns sets please_refresh and leaves
\* please_persist as it was; so please_persist can be True while
\* please_refresh is False.
C12_FlagsIndependent ==
    [][\A p \in Procs : (OpStep(p) /\ cfg.module = "new") =>
        /\ (lastop'.kind = "persist") =>
             /\ session'[p].please_refresh = session[p].please_refresh
             /\ session'[p].please_persist = (session[p].please_persist \/ ~lastop'.raised)
        /\ (lastop'.kind = "refresh") =>
             /\ session'[p].please_persist = session[p].please_persist
             /\ session'[p].please_refresh = (session[p].please_refresh \/ ~lastop'.raised)
      ]_vars
C12_Witness ==
    \E p, q \in Procs :
        /\ cfg.module = "new"
        /\ ~session[p].flushed /\ ~session[q].flushed
        /\ session[p].please_persist /\ ~session[p].please_refresh
        /\ session[q].please_refresh /\ ~session[q].please_persist
        /\ lastop.who = p /\ lastop.kind = "persist" /\ ~lastop.raised

\* a step in which caller p writes the payload of its session: the persist
\* decorator of the old module, the flush of a pending persist in the new one
PersistStep(p) ==
    IF cfg.module = "old"
    THEN OpStep(p) /\ lastop'.kind = "persist" /\ ~lastop'.raised
    ELSE /\ ~session[p].flushed /\ session'[p].flushed
         /\ session[p].please_persist
\* p's session can persist now
CanPersist(p) ==
    IF cfg.module = "old"
    THEN ENABLED DecoratedCall(p, "persist", session[p].managed_dict, FALSE)
    ELSE ENABLED Flush(p)

\* C13: a persist of an existing id takes no watch and is never held back by
\* another writer: it can run whatever was written to the key since the
\* session was loaded, and it leaves under the key exactly the payload of
\* the session that persisted, with nothing of the value it replaced.
C13_LastWriteWins ==
    [][\A p \in Procs :
        /\ (session[p].session_id # None /\ ~session[p].flushed
              /\ session[p].trips < MaxTrips
              /\ lastop.who # p /\ lastop.cmds # << >>) => CanPersist(p)
        /\ PersistStep(p) =>
             /\ redis_has_value(store', SharedId)
             /\ store'[SharedId].val =
                  (IF cfg.module = "old" THEN serialize(session'[p].managed_dict)
                   ELSE flush_value(cfg, session[p], now))
             /\ (IF cfg.module = "old" THEN deserialize(store'[SharedId].val)
                 ELSE deserialize(store'[SharedId].val)["m"]) = session'[p].managed_dict
      ]_vars
C13_Witness ==
    \E p, q \in Procs :
        /\ p # q
        /\ lastop.who = p /\ lastop.cmds # << >> /\ lastop.kind \in {"persist", "flush"}
        /\ IF cfg.module = "old"
           THEN /\ session[q].trips > 0
                /\ store[SharedId].val = serialize(session[p].managed_dict)
           ELSE /\ session[q].flushed /\ session[q].please_persist
                /\ session[p].flushed /\ session[p].please_persist
                /\ store[SharedId].val = flush_value(cfg, session[p], now)
        /\ session[p].managed_dict = EmptyDict
        /\ session[q].managed_dict # EmptyDict

\* ------------------------------------------------ store failure claims

\* C14: an error of a store call other than WatchError reaches the caller of
\* create_unique_session_id as it was raised: the call ends there with that
\* error, makes no further attempt and returns no id.
C14_StoreErrorPropagates ==
    [][\A p \in Procs :
        /\ (err'[p] # err[p]) =>
             /\ pc[p] \in {"gen", "get", "exec"}
             /\ pc'[p] = "raised"
             /\ result'[p] = None
        /\ (pc[p] = "raised") =>
             /\ pc'[p] = "raised"
             /\ err'[p] = err[p] /\ err[p] \in Errors
             /\ result'[p] = None
             /\ sid'[p] = None
      ]_vars
C14_Witness ==
    \E p, q \in Procs :
        /\ pc[p] = "raised" /\ err[p] = "ConnectionError" /\ result[p] = None
        /\ pc[q] = "done" /\ result[q] # None /\ err[q] = "none"
        /\ redis_has_value(store, result[q])

\* ------------------------------------------------------ termination claims

\* an attempt of p that ends with None: the candidate held a value, or the
\* commit was aborted
AttemptFails(p) == (Get(p) \/ Execute(p)) /\ pc'[p] = "gen" /\ result'[p] = None
\* every id the generator can yield is held by a key that never expires
StuckStore == \A k \in Ids : redis_has_value(store, k) /\ store[k].ttl = None

\* C15: create_unique_session_id returns at the first attempt that commits,
\* and nothing but failing attempts keeps it from returning: a running call
\* either returns or has attempts failing again and again without end; and
\* while every candidate collides the call stays in its loop, never
\* returning and never raising, with no bound on the attempts.
C15_UnboundedRetry ==
    /\ \A p \in Procs : <>(pc[p] = "done") \/ []<><<AttemptFails(p)>>_vars
    /\ [][\A p \in Procs :
            /\ (Execute(p) /\ ~execute_aborts(p)) => (pc'[p] = "done" /\ result'[p] = sid[p])
            /\ StuckStore => (StuckStore' /\ (pc[p] # "done" => pc'[p] \in {"gen", "get", "exec"}))
         ]_vars
C15_Witness ==
    \E p, q \in Procs :
        /\ StuckStore
        /\ pc[p] = "get" /\ result[p] = None
        /\ pc[q] = "done" /\ redis_has_value(store, result[q])

\* ------------------------------------------------------ end-to-end claims

\* C16: right after a successful create_unique_session_id with no payload
\* of the caller's, the key read back decodes to managed_dict = {} and
\* version = SESSION_API_VERSION; the payload has 't' = timeout only when
\* timeout is truthy and 'x' = created + timeout only when timeout and
\* python_expires are both truthy; with timeout and set_redis_ttl the key's
\* TTL is above 0 and at most timeout (timeout = 100 included), and the key
\* has no TTL otherwise.
C16_DefaultPayload ==
    \A p \in Procs : (pc[p] = "done") =>
        /\ redis_has_value(store, result[p])
        /\ LET d == deserialize(store[result[p]].val)
               r == decode_session_payload(d)
               ttl == store[result[p]].ttl
           IN  /\ r.managed_dict = EmptyDict
               /\ r.version = SESSION_API_VERSION
               /\ r.created = now
               /\ DOMAIN d \subseteq {"m", "c", "v", "t", "x"}
               /\ ("t" \in DOMAIN d) <=> Truthy(cfg.timeout)
               /\ ("t" \in DOMAIN d) => d["t"] = cfg.timeout
               /\ ("x" \in DOMAIN d) <=> (Truthy(cfg.timeout) /\ cfg.python_expires)
               /\ ("x" \in DOMAIN d) => d["x"] = d["c"] + cfg.timeout
               /\ IF Truthy(cfg.timeout) /\ cfg.set_redis_ttl
                  THEN ttl > 0 /\ ttl <= cfg.timeout
                  ELSE ttl = None
C16_Witness ==
    \E p \in Procs :
        /\ pc[p] = "done"
        /\ cfg.timeout = 100 /\ cfg.set_redis_ttl /\ cfg.python_expires
        /\ now > 0
        /\ store[result[p]].ttl = 100
        /\ deserialize(store[result[p]].val)["x"] = now + 100
        /\ decode_session_payload(deserialize(store[result[p]].val)).managed_dict = EmptyDict

\* ------------------------------------------------- expires-key claims

\* the call returned a payload
Encoded == call.phase \in {"encoded", "decoded"}
\* no trigger is configured, or the recompute is due
TriggerDue(c) == ~Truthy(c.trig) \/ (c.x # None /\ c.tn >= c.x - c.trig)

\* C17 as claimed: the payload has 'x' only when python_expires is on and
\* either no trigger is configured or the recompute is due.
C17_Claimed ==
    (Encoded /\ "x" \in DOMAIN call.data) => (call.pe /\ TriggerDue(call))

\* C17 (amended): the payload has 'x' exactly when python_expires is on and
\* either a truthy expires was passed in or a timeout is set and the
\* recompute applies (no trigger configured, or now >= expires - trigger).
\* With the recompute its value is now + timeout; without it, it is the
\* expires passed in, which the codec writes back unchanged.  With tracking
\* off there is never an 'x'.
C17_ExpiresKey ==
    Encoded =>
        LET recompute == Truthy(call.t) /\ TriggerDue(call)
        IN  /\ ("x" \in DOMAIN call.data) <=> (call.pe /\ (Truthy(call.x) \/ recompute))
            /\ ("x" \in DOMAIN call.data) =>
                 call.data["x"] = (IF recompute THEN call.tn + call.t ELSE call.x)
C17_Witness ==
    /\ call.phase = "encoded"
    /\ call.pe /\ Truthy(call.t) /\ Truthy(call.trig)
    /\ call.x # None /\ call.tn < call.x - call.trig
    /\ "x" \in DOMAIN call.data /\ call.data["x"] = call.x

\* ------------------------------------------------- failed attempt claims

\* C18: an attempt that returns None, because the candidate key held a value
\* or because the commit was aborted, leaves the value and the TTL of every
\* key, the candidate included, as they were: none of the buffered commands
\* is applied.
C18_FailedAttemptNoEffect ==
    [][\A p \in Procs : AttemptFails(p) => (store' = store /\ handed' = handed)]_vars
C18_Witness ==
    \E p \in Procs :
        /\ pc[p] = "gen" /\ raced[p] # None /\ result[p] = None
        /\ redis_has_value(store, raced[p])
        /\ store[raced[p]] = [val |-> RacerValue, ttl |-> None]
        /\ cfg.module = "old"

\* ------------------------------------------------- decorator error claims

\* C19: the refresh and persist decorators of pyramid_session_redis set
\* their flag only after the wrapped operation returned: when it raises,
\* please_refresh and please_persist keep the values they had; when it
\* returns, the decorator's flag is set; and no decorated call resets a
\* flag, so a flag once set stays set over every later decorated call.
C19_FlagAfterReturn ==
    [][\A p \in Procs : (OpStep(p) /\ cfg.module = "new") =>
        /\ lastop'.raised =>
             /\ session'[p].please_refresh = session[p].please_refresh
             /\ session'[p].please_persist = session[p].please_persist
             /\ lastop'.cmds = << >>
        /\ (~lastop'.raised) => FlagSet(p)
        /\ session[p].please_refresh => session'[p].please_refresh
        /\ session[p].please_persist => session'[p].please_persist
      ]_vars
C19_Witness ==
    \E p \in Procs :
        /\ cfg.module = "new"
        /\ lastop = [who |-> p, kind |-> "persist", raised |-> TRUE, cmds |-> << >>]
        /\ session[p].please_refresh /\ ~session[p].please_persist
        /\ ~session[p].flushed
        /\ session[p].managed_dict # EmptyDict

\* ------------------------------------------------- encode error claims

\* the record's next encode reaches the trigger comparison with no expires
NeedsExpires ==
    /\ Truthy(rec.timeout) /\ cfg.python_expires /\ Truthy(cfg.timeout_trigger)
    /\ rec.expires = None

\* C20: with timeout set, python_expires on and a non-zero timeout_trigger,
\* an encode of a record whose expires is unset, as decoded from a payload
\* without 'x', raises instead of writing a payload with a fresh expiry: no
\* persist of such a record yields a payload, and a persist raises in this
\* case only.
C20_EncodeNeedsExpires ==
    [][/\ NeedsExpires => (stored' = stored /\ (perr' # perr => perr'))
       /\ (perr' /\ ~perr) => NeedsExpires
       /\ (stored' # stored) => ~perr'
      ]_vars
C20_Witness ==
    /\ perr
    /\ NeedsExpires
    /\ "x" \notin DOMAIN stored /\ "t" \in DOMAIN stored
    /\ rec = decode_session_payload(stored)
    /\ now > stored["c"]

====
